---- MODULE Spec2Model ----
(***************************************************************************)
(* Model of the city_db table storage engine: the on-disk table file, the  *)
(* in-memory Table, page geometry, row encoding/decoding and the scan.     *)
(* The file is modelled byte for byte (a sequence of 0..255); file offsets *)
(* are 0-based as in the source, sequence indices are offset + 1.          *)
(***************************************************************************)
EXTENDS Integers, Sequences, FiniteSets, TLC

VARIABLES
    exists,      \* the table file exists on disk
    file,        \* contents of the table file
    table,       \* the process's in-memory Table, or NoTable
    page_cache,  \* main.rs page_cache: page number -> Page
    appended,    \* rows for which add_row returned Ok, in call order
    slots,       \* encoded rows whose positioned write completed, by slot
    last,        \* what the last operation was given and what it returned
    cursor       \* position of the open handle on the database file

vars ==
    <<exists, file, table, page_cache, appended, slots, last, cursor>>

\* ---------------------------------------------------------------- bounds
MaxRows == 3

\* longest raw column given to stringify_result
MaxColumnBytes == 4

\* most value tuples in one INSERT statement
MaxTuples == 2

\* longest table name in a SELECT statement
MaxNameChars == 3

\* ------------------------------------------------------ program constants
MAX_PAGE_SIZE == 128
NAME_SIZE == 64
COLUMN_COUNT_OFFSET == 64
COLUMN_DEFINITION_OFFSET == 68
COLUMN_TYPE_INT == 1
COLUMN_TYPE_VARCHAR == 2
ROW_COUNT_WIDTH == 8

NoTable == [none |-> TRUE]
Panic == "panic"

\* ----------------------------------------------------------- byte helpers
Zeros(n) == [i \in 1..n |-> 0]

\* Vec::resize(n, 0): truncates a longer vector, zero-extends a shorter one
resize(v, n) == IF Len(v) >= n THEN SubSeq(v, 1, n) ELSE v \o Zeros(n - Len(v))

\* uN::to_ne_bytes on a little-endian build, w bytes wide
RECURSIVE to_ne_bytes(_, _)
to_ne_bytes(n, w) ==
    IF w = 0 THEN <<>> ELSE <<n % 256>> \o to_ne_bytes(n \div 256, w - 1)

\* uN::from_ne_bytes on a little-endian build
RECURSIVE from_ne_bytes(_)
from_ne_bytes(b) ==
    IF b = <<>> THEN 0 ELSE b[1] + 256 * from_ne_bytes(Tail(b))

\* FileExt::write_all_at that succeeds: positioned write, the file grows
\* (zero-filled hole) when the range ends past its end
write_all_at(f, bytes, offset) ==
    IF bytes = <<>> THEN f
    ELSE LET grown == IF Len(f) < offset THEN f \o Zeros(offset - Len(f))
                      ELSE f
         IN  SubSeq(grown, 1, offset) \o bytes
                \o SubSeq(grown, offset + Len(bytes) + 1, Len(grown))

\* FileExt::read_exact_at: Ok(bytes) or Err (UnexpectedEof)
read_exact_at(f, offset, n) ==
    IF offset + n <= Len(f)
    THEN [ok |-> TRUE, bytes |-> SubSeq(f, offset + 1, offset + n)]
    ELSE [ok |-> FALSE, bytes |-> <<>>]

\* ------------------------------------------------ column type / definition
ColumnTypeCode(column_type) ==
    IF column_type = "Int" THEN COLUMN_TYPE_INT ELSE COLUMN_TYPE_VARCHAR

ColumnTypeBytes(column_type) == to_ne_bytes(ColumnTypeCode(column_type), 4)

\* a name copied into a zeroed 64-byte buffer
NameBuffer(name_bytes) == resize(name_bytes, NAME_SIZE)

ColumnDefinitionNew(name, column_type, length) ==
    [name |-> NameBuffer(name), column_type |-> column_type, length |-> length]

ColumnDefinitionSize == 76

\* variant: the length serialised before the type code
ColumnDefinitionBytes_length_first(column) ==
    column.name \o to_ne_bytes(column.length, 8)
                \o ColumnTypeBytes(column.column_type)

ColumnDefinitionBytes(column) ==
    column.name \o ColumnTypeBytes(column.column_type)
                \o to_ne_bytes(column.length, 8)

\* ------------------------------------------------------------------ Table
TableNew(name, columns) ==
    [name |-> NameBuffer(name),
     column_count |-> Len(columns),
     columns |-> columns,
     row_count |-> 0]

RECURSIVE SumLengths(_, _)
SumLengths(columns, n) ==
    IF n = 0 THEN 0 ELSE SumLengths(columns, n - 1) + columns[n].length

row_size(t) == SumLengths(t.columns, Len(t.columns))

header_size(t) ==
    COLUMN_DEFINITION_OFFSET + (t.column_count * ColumnDefinitionSize)
        + ROW_COUNT_WIDTH

\* variant: the target page size taken whole, without the clamp
page_size_unclamped(t) ==
    IF row_size(t) < MAX_PAGE_SIZE THEN MAX_PAGE_SIZE ELSE row_size(t)

page_size(t) ==
    IF row_size(t) < MAX_PAGE_SIZE
    THEN MAX_PAGE_SIZE - (MAX_PAGE_SIZE % row_size(t))
    ELSE row_size(t)

page_count(t) ==
    IF t.row_count = 0 THEN 0
    ELSE ((row_size(t) * t.row_count) \div page_size(t)) + 1

last_page_at_limit(t) ==
    (row_size(t) * t.row_count) % page_size(t) = 0

\* variant: the page placed over the last page that holds rows
add_page_offset_at_last_page(t) ==
    IF t.row_count = 0 THEN header_size(t)
    ELSE header_size(t) + ((page_count(t) - 1) * page_size(t))

add_page_offset(t) ==
    IF t.row_count = 0 THEN header_size(t)
    ELSE header_size(t) + (page_count(t) * page_size(t))

\* add_page whose write succeeds: the file afterwards
add_page(t, f) == write_all_at(f, Zeros(page_size(t)), add_page_offset(t))

\* variant: the column definitions left out of the offset
row_count_offset_without_columns(t) == COLUMN_DEFINITION_OFFSET

row_count_offset(t) ==
    COLUMN_DEFINITION_OFFSET + (t.column_count * ColumnDefinitionSize)

\* variant: the counter written where the row storage begins
write_row_count_to_disk_at_header_size(t, f) ==
    write_all_at(f, to_ne_bytes(t.row_count, ROW_COUNT_WIDTH), header_size(t))

\* write_row_count_to_disk whose write succeeds: the file afterwards
write_row_count_to_disk(t, f) ==
    write_all_at(f, to_ne_bytes(t.row_count, ROW_COUNT_WIDTH),
                 row_count_offset(t))

\* ------------------------------------------------- Durable for Table
RECURSIVE write_columns(_, _, _)
write_columns(columns, n, f) ==
    IF n = 0 THEN f
    ELSE write_all_at(write_columns(columns, n - 1, f),
                      ColumnDefinitionBytes(columns[n]),
                      COLUMN_DEFINITION_OFFSET + (n - 1) * ColumnDefinitionSize)

\* write_to_disk whose writes all succeed: the file afterwards
write_to_disk(t, f) ==
    LET f_name  == write_all_at(f, t.name, 0)
        f_count == write_all_at(f_name, to_ne_bytes(t.column_count, 4),
                                COLUMN_COUNT_OFFSET)
        f_cols  == write_columns(t.columns, Len(t.columns), f_count)
    IN  write_row_count_to_disk(t, f_cols)

IoError == "IoError"
DbError == "DbError"

\* variant: every code other than 1 decoded as Varchar
RECURSIVE read_columns_default_varchar(_, _, _, _)
read_columns_default_varchar(f, remaining, offset, columns) ==
    IF remaining = 0 THEN [err |-> "", columns |-> columns, offset |-> offset]
    ELSE LET name_r == read_exact_at(f, offset, 64)
             type_r == read_exact_at(f, offset + 64, 4)
             len_r  == read_exact_at(f, offset + 68, 8)
             code   == from_ne_bytes(type_r.bytes)
         IN  IF ~name_r.ok \/ ~type_r.ok \/ ~len_r.ok
             THEN [err |-> IoError, columns |-> columns, offset |-> offset]
             ELSE read_columns_default_varchar(f, remaining - 1, offset + 76,
                    Append(columns,
                        [name |-> name_r.bytes,
                         column_type |-> IF code = 1 THEN "Int" ELSE "Varchar",
                         length |-> from_ne_bytes(len_r.bytes)]))

\* the column loop of read_from_disk: `remaining` definitions from `offset`
RECURSIVE read_columns(_, _, _, _)
read_columns(f, remaining, offset, columns) ==
    IF remaining = 0 THEN [err |-> "", columns |-> columns, offset |-> offset]
    ELSE LET name_r == read_exact_at(f, offset, 64)
             type_r == read_exact_at(f, offset + 64, 4)
             len_r  == read_exact_at(f, offset + 68, 8)
             code   == from_ne_bytes(type_r.bytes)
         IN  IF ~name_r.ok \/ ~type_r.ok
             THEN [err |-> IoError, columns |-> columns, offset |-> offset]
             ELSE IF code \notin {1, 2}
             THEN [err |-> DbError, columns |-> columns, offset |-> offset]
             ELSE IF ~len_r.ok
             THEN [err |-> IoError, columns |-> columns, offset |-> offset]
             ELSE read_columns(f, remaining - 1, offset + 76,
                    Append(columns,
                        [name |-> name_r.bytes,
                         column_type |-> IF code = 1 THEN "Int" ELSE "Varchar",
                         length |-> from_ne_bytes(len_r.bytes)]))

\* variant: the row count taken from the bytes after the count field
read_from_disk_count_after_field(f) ==
    LET name_r  == read_exact_at(f, 0, 64)
        count_r == read_exact_at(f, 64, 4)
    IN  IF ~name_r.ok \/ ~count_r.ok THEN [err |-> IoError, table |-> NoTable]
        ELSE
        LET column_count == from_ne_bytes(count_r.bytes)
            cols == read_columns(f, column_count, 68, <<>>)
            rc_r == read_exact_at(f, cols.offset + ROW_COUNT_WIDTH,
                                  ROW_COUNT_WIDTH)
        IN  IF cols.err # "" THEN [err |-> cols.err, table |-> NoTable]
            ELSE IF ~rc_r.ok THEN [err |-> IoError, table |-> NoTable]
            ELSE [err |-> "",
                  table |-> [name |-> name_r.bytes,
                             column_count |-> column_count,
                             columns |-> cols.columns,
                             row_count |-> from_ne_bytes(rc_r.bytes)]]

\* read_from_disk: [err |-> "", table |-> Table] or [err |-> kind, ...]
read_from_disk(f) ==
    LET name_r  == read_exact_at(f, 0, 64)
        count_r == read_exact_at(f, 64, 4)
    IN  IF ~name_r.ok \/ ~count_r.ok THEN [err |-> IoError, table |-> NoTable]
        ELSE
        LET column_count == from_ne_bytes(count_r.bytes)
            cols == read_columns(f, column_count, 68, <<>>)
            rc_r == read_exact_at(f, cols.offset, ROW_COUNT_WIDTH)
        IN  IF cols.err # "" THEN [err |-> cols.err, table |-> NoTable]
            ELSE IF ~rc_r.ok THEN [err |-> IoError, table |-> NoTable]
            ELSE [err |-> "",
                  table |-> [name |-> name_r.bytes,
                             column_count |-> column_count,
                             columns |-> cols.columns,
                             row_count |-> from_ne_bytes(rc_r.bytes)]]

\* ------------------------------------------------------------------ pages
\* variant: the mapping offset taken from the start of the file
page_at_without_header(t, page) ==
    IF page > page_count(t)
    THEN [err |-> "Invalid page number", page |-> [none |-> TRUE]]
    ELSE [err |-> "",
          page |-> [page_number |-> page,
                    offset |-> page * page_size(t),
                    len |-> page_size(t)]]

\* page_at: an error, or a Page: a shared read-only mapping of page_size()
\* bytes of the file at header_size() + page * page_size()
page_at(t, page) ==
    IF page > page_count(t)
    THEN [err |-> "Invalid page number", page |-> [none |-> TRUE]]
    ELSE [err |-> "",
          page |-> [page_number |-> page,
                    offset |-> header_size(t) + (page * page_size(t)),
                    len |-> page_size(t)]]

\* end of the last OS page (4096 bytes) that holds file bytes: a mapping
\* reads zero up to there and faults beyond
MappedLimit(f) == ((Len(f) + 4095) \div 4096) * 4096

\* the bytes of a mapping, read through to the file as it is now; bytes
\* past the end of the file read as zero
PageData(f, page) ==
    LET end == page.offset + page.len
        grown == IF Len(f) < end THEN f \o Zeros(end - Len(f)) ELSE f
    IN  SubSeq(grown, page.offset + 1, end)

\* page.data[from..to] (0-based, to exclusive)
PageSlice(f, page, from, to) == SubSeq(PageData(f, page), from + 1, to)

RECURSIVE ColumnStartFits(_, _)
ColumnStartFits(columns, n) ==
    IF n = 0 THEN TRUE
    ELSE /\ ColumnStartFits(columns, n - 1)
         /\ columns[n].length * (n - 1) + columns[n].length
               <= SumLengths(columns, Len(columns))

\* start of column j (1-based) inside a row, as page_rows computes it
column_start(columns, j) == columns[j].length * (j - 1)

\* number of rows page_rows decodes from a page
page_row_count(t, page) ==
    LET rows_in_page == page_size(t) \div row_size(t)
    IN  IF t.row_count > rows_in_page
        THEN IF page.page_number = page_count(t) - 1
             THEN t.row_count % rows_in_page
             ELSE rows_in_page
        ELSE t.row_count

\* page_rows: the decoded rows, or a panic (a slice out of range, or a
\* fault on a mapped byte past the end of the file's last OS page)
page_rows(t, page, f) ==
    LET n == page_row_count(t, page)
    IN  IF n = 0 THEN [panic |-> FALSE, rows |-> <<>>]
        ELSE IF \/ n * row_size(t) > page.len
                \/ page.offset + n * row_size(t) > MappedLimit(f)
                \/ ~ColumnStartFits(t.columns, Len(t.columns))
        THEN [panic |-> TRUE, rows |-> <<>>]
        ELSE [panic |-> FALSE,
              rows |-> [i \in 1..n |->
                [j \in 1..Len(t.columns) |->
                    PageSlice(f, page,
                        (i - 1) * row_size(t) + column_start(t.columns, j),
                        (i - 1) * row_size(t) + column_start(t.columns, j)
                            + t.columns[j].length)]]]

\* ---------------------------------------------------------------- add_row
ErrCardinality == "Invalid row data"
ErrColumnData == "Invalid column data"
ErrRowSize == "Invalid final row size"
ErrAddPage == "Error adding page to table"
ErrWriteRow == "Error writing row to disk"
ErrRowCount == "Error updating table row count"

\* variant: only the first column's value is checked
first_column_error_first_only(t, row, i) ==
    IF Len(t.columns) >= 1 /\ Len(row[1]) > t.columns[1].length
    THEN ErrColumnData ELSE ""

\* the first validation failure of add_row, "" when the row passes
RECURSIVE first_column_error(_, _, _)
first_column_error(t, row, i) ==
    IF i > Len(t.columns) THEN ""
    ELSE IF Len(row[i]) > t.columns[i].length THEN ErrColumnData
    ELSE first_column_error(t, row, i + 1)

\* row_bytes: every value resized to its column's length, in column order
RECURSIVE row_bytes(_, _, _)
row_bytes(t, row, n) ==
    IF n = 0 THEN <<>>
    ELSE row_bytes(t, row, n - 1) \o resize(row[n], t.columns[n].length)

\* variant: only a row with too few values fails the cardinality check
validate_row_too_few_only(t, row) ==
    IF Len(row) < t.column_count THEN ErrCardinality
    ELSE IF first_column_error(t, row, 1) # "" THEN ErrColumnData
    ELSE IF Len(row_bytes(t, row, Len(t.columns))) # row_size(t) THEN ErrRowSize
    ELSE ""

validate_row(t, row) ==
    IF Len(row) # t.column_count THEN ErrCardinality
    ELSE IF first_column_error(t, row, 1) # "" THEN ErrColumnData
    ELSE IF Len(row_bytes(t, row, Len(t.columns))) # row_size(t) THEN ErrRowSize
    ELSE ""

\* the file once add_row is past its page allocation
file_after_page(t, f) == IF last_page_at_limit(t) THEN add_page(t, f) ELSE f

\* variant: the offset computed from the count after the increment
row_offset_after_increment(t) ==
    header_size(t) + (row_size(t) * (t.row_count + 1))

row_offset(t) == header_size(t) + (row_size(t) * t.row_count)

\* the file once add_row has written the row bytes
file_after_row(t, row, f) ==
    write_all_at(file_after_page(t, f), row_bytes(t, row, Len(t.columns)),
                 row_offset(t))

\* variant: the counter of columns advanced instead of the counter of rows
count_row_as_column(t) == [t EXCEPT !.column_count = @ + 1]

\* self.row_count += 1
count_row(t) == [t EXCEPT !.row_count = @ + 1]

\* a fault injected into one call: which positioned write fails ("none",
\* "page", "row", "count") and how many of its bytes reached the file
\* before the error
NoFault == [write |-> "none", written |-> 0]

\* FileExt::write_all_at that fails after `written` bytes
failed_write(f, bytes, offset, written) ==
    write_all_at(f, SubSeq(bytes, 1, written), offset)

\* variant: the result of add_page not looked at
add_row_ignoring_page_error(t, row, f, fail) ==
    IF validate_row(t, row) # ""
    THEN [table |-> t, file |-> f, res |-> validate_row(t, row)]
    ELSE LET t1 == [t EXCEPT !.row_count = @ + 1]
             f1 == IF last_page_at_limit(t) /\ fail.write = "page"
                   THEN failed_write(f, Zeros(page_size(t)),
                                     add_page_offset(t), fail.written)
                   ELSE file_after_page(t, f)
             f2 == write_all_at(f1, row_bytes(t, row, Len(t.columns)),
                                row_offset(t))
         IN  [table |-> t1, file |-> write_row_count_to_disk(t1, f2),
              res |-> "Ok"]

\* add_row(row, file): the table and file it leaves and what it returns,
\* under the fault `fail`
add_row(t, row, f, fail) ==
    IF validate_row(t, row) # ""
    THEN [table |-> t, file |-> f, res |-> validate_row(t, row)]
    ELSE IF last_page_at_limit(t) /\ fail.write = "page"
    THEN [table |-> t,
          file |-> failed_write(f, Zeros(page_size(t)), add_page_offset(t),
                                fail.written),
          res |-> ErrAddPage]
    ELSE IF fail.write = "row"
    THEN [table |-> t,
          file |-> failed_write(file_after_page(t, f),
                                row_bytes(t, row, Len(t.columns)),
                                row_offset(t), fail.written),
          res |-> ErrWriteRow]
    ELSE LET t1 == count_row(t)
         IN  IF fail.write = "count"
             THEN [table |-> t1,
                   file |-> failed_write(file_after_row(t, row, f),
                                to_ne_bytes(t1.row_count, ROW_COUNT_WIDTH),
                                row_count_offset(t1), fail.written),
                   res |-> ErrRowCount]
             ELSE [table |-> t1,
                   file |-> write_row_count_to_disk(t1,
                                file_after_row(t, row, f)),
                   res |-> "Ok"]

\* ----------------------------------------------------------- scan (main.rs)
RECURSIVE strip_zero(_)
strip_zero(bytes) ==
    IF bytes = <<>> THEN <<>>
    ELSE IF bytes[1] = 0 THEN strip_zero(Tail(bytes))
    ELSE <<bytes[1]>> \o strip_zero(Tail(bytes))

stringify_result(row) == [j \in 1..Len(row) |-> strip_zero(row[j])]

\* variant: the first cached page handed out for every page number
cached_page_first_entry(t, cache, i) ==
    IF 0 \in DOMAIN cache THEN cache[0] ELSE page_at(t, i).page

\* the page the scan uses for page number i: the cached one if present
cached_page(t, cache, i) ==
    IF i \in DOMAIN cache THEN cache[i] ELSE page_at(t, i).page

\* the Select arm of get_result_set over pages from..page_count()-1:
\* the page rows in scan order, or a panic
RECURSIVE scan_pages(_, _, _, _)
scan_pages(t, f, cache, from) ==
    IF from >= page_count(t) THEN [panic |-> FALSE, rows |-> <<>>]
    ELSE LET here == page_rows(t, cached_page(t, cache, from), f)
             rest == scan_pages(t, f, cache, from + 1)
         IN  IF here.panic \/ rest.panic THEN [panic |-> TRUE, rows |-> <<>>]
             ELSE [panic |-> FALSE, rows |-> here.rows \o rest.rows]

cache_after_scan(t, cache) ==
    [i \in (DOMAIN cache) \cup (0..(page_count(t) - 1)) |->
        cached_page(t, cache, i)]

\* ------------------------------------------------------------------ inputs
TableName == <<116, 98, 108>>
ColId == <<105, 100>>
ColV == <<118>>

Layout(a, b) ==
    <<ColumnDefinitionNew(ColId, "Int", a), ColumnDefinitionNew(ColV, "Varchar", b)>>

\* column layouts given to create_table: one and two columns, equal and
\* unequal lengths, one, two and many rows to the page
Layouts ==
    { Layout(32, 32), Layout(64, 2), Layout(2, 64),
      <<ColumnDefinitionNew(ColId, "Int", 65)>> }

Values == { <<49>>, <<50, 51, 52>> }

\* rows given to add_row: one or two values
Rows == UNION { [1..n -> Values] : n \in 1..2 }

\* ------------------------------------------------------------------- state
EmptyCache == <<>>

Outcome(op, res) ==
    [op |-> op, res |-> res, row |-> <<>>, page |-> 0,
     scan |-> <<>>, result_rows |-> <<>>, table |-> NoTable,
     fail |-> NoFault, name |-> <<>>]

Init ==
    /\ exists = FALSE
    /\ file = <<>>
    /\ table = NoTable
    /\ page_cache = EmptyCache
    /\ appended = <<>>
    /\ slots = <<>>
    /\ last = Outcome("init", "")
    /\ cursor = 0

\* variant: the file written without asking whether it exists
create_table_overwriting(name, columns, ex, f) ==
    [exists |-> TRUE,
     file |-> add_page(TableNew(name, columns),
                       write_to_disk(TableNew(name, columns), f)),
     table |-> TableNew(name, columns),
     res |-> "Ok"]

\* create_table(name, columns), every write succeeding: whether the file
\* exists afterwards, what it holds, the Table built and the result
create_table(name, columns, ex, f) ==
    IF ex
    THEN [exists |-> ex, file |-> f, table |-> NoTable,
          res |-> "already exists"]
    ELSE [exists |-> TRUE,
          file |-> add_page(TableNew(name, columns),
                            write_to_disk(TableNew(name, columns), f)),
          table |-> TableNew(name, columns),
          res |-> "Ok"]

\* create_table(name, columns) at process start (prep_db)
CreateTable(columns) ==
    /\ table = NoTable
    /\ LET r == create_table(TableName, columns, exists, file)
       IN  /\ exists' = r.exists
           /\ file' = r.file
           /\ last' = [Outcome("create_table", r.res) EXCEPT
                         !.table = r.table]
    /\ UNCHANGED <<table, page_cache, appended, slots, cursor>>

\* writeable_table_file + prep_table: Table::read_from_disk(file).unwrap()
Open ==
    /\ exists
    /\ table = NoTable
    /\ table' = read_from_disk(file).table
    /\ page_cache' = EmptyCache
    /\ last' = [Outcome("read_from_disk", read_from_disk(file).err) EXCEPT
                  !.table = read_from_disk(file).table]
    /\ UNCHANGED <<exists, file, appended, slots, cursor>>

\* the process ends between two operations
Exit ==
    /\ table # NoTable
    /\ table' = NoTable
    /\ page_cache' = EmptyCache
    /\ last' = Outcome("exit", "")
    /\ UNCHANGED <<exists, file, appended, slots, cursor>>

\* table.add_row(row, file), every positioned write succeeding
AddRow(row) ==
    /\ table # NoTable
    /\ table.row_count < MaxRows
    /\ LET r == add_row(table, row, file, NoFault)
       IN  /\ table' = r.table
           /\ file' = r.file
           /\ last' = [Outcome("add_row", r.res) EXCEPT !.row = row]
           /\ IF r.res = "Ok"
              THEN /\ appended' = Append(appended, row)
                   /\ slots' = Append(SubSeq(slots, 1, table.row_count),
                                      row_bytes(table, row, Len(table.columns)))
              ELSE UNCHANGED <<appended, slots>>
    /\ UNCHANGED <<exists, page_cache, cursor>>

\* get_result_set for SELECT FROM <table>; a panic ends the process
Select ==
    /\ table # NoTable
    /\ LET r == scan_pages(table, file, page_cache, 0)
       IN  IF r.panic
           THEN /\ table' = NoTable
                /\ page_cache' = EmptyCache
                /\ last' = Outcome("select", Panic)
           ELSE /\ table' = table
                /\ page_cache' = cache_after_scan(table, page_cache)
                /\ last' = [Outcome("select", "Ok") EXCEPT
                              !.scan = r.rows,
                              !.result_rows =
                                 [i \in 1..Len(r.rows) |->
                                     stringify_result(r.rows[i])]]
    /\ UNCHANGED <<exists, file, appended, slots, cursor>>

\* table.page_at(file, page)
PageAt(page) ==
    /\ table # NoTable
    /\ last' = [Outcome("page_at", page_at(table, page).err) EXCEPT
                  !.page = page]
    /\ UNCHANGED <<exists, file, table, page_cache, appended, slots, cursor>>

Next ==
    \/ \E columns \in Layouts : CreateTable(columns)
    \/ Open
    \/ Exit
    \/ \E row \in Rows : AddRow(row)
    \/ Select
    \/ \E page \in 0..(MaxRows + 1) : PageAt(page)

Spec == Init /\ [][Next]_vars

\* the process is killed inside add_row: after the page allocation
\* (point = "page") or after the row write (point = "row"), in both cases
\* before the row count is persisted
AddRowCrash(row, point) ==
    /\ table # NoTable
    /\ table.row_count < MaxRows
    /\ validate_row(table, row) = ""
    /\ file' = IF point = "page" THEN file_after_page(table, file)
               ELSE file_after_row(table, row, file)
    /\ slots' = IF point = "page" THEN slots
                ELSE Append(SubSeq(slots, 1, table.row_count),
                            row_bytes(table, row, Len(table.columns)))
    /\ table' = NoTable
    /\ page_cache' = EmptyCache
    /\ last' = [Outcome("add_row", "crash") EXCEPT !.row = row]
    /\ UNCHANGED <<exists, appended, cursor>>

NextCrash ==
    \/ \E columns \in Layouts : CreateTable(columns)
    \/ Open
    \/ Exit
    \/ \E row \in Rows : AddRow(row)
    \/ Select
    \/ \E row \in Rows, point \in {"page", "row"} : AddRowCrash(row, point)

SpecCrash == Init /\ [][NextCrash]_vars

\* ----------------------------------------------------- failing file writes
Faults ==
    { [write |-> w, written |-> k] : w \in {"page", "row", "count"},
                                     k \in {0, 1} }

\* table.add_row(row, file) in which the positioned write named by the
\* fault fails
AddRowFault(row, fail) ==
    /\ table # NoTable
    /\ table.row_count < MaxRows
    /\ validate_row(table, row) = ""
    /\ fail.write = "page" => last_page_at_limit(table)
    /\ LET r == add_row(table, row, file, fail)
       IN  /\ table' = r.table
           /\ file' = r.file
           /\ last' = [Outcome("add_row", r.res) EXCEPT
                         !.row = row, !.fail = fail]
           /\ slots' = IF fail.write = "count"
                       THEN Append(SubSeq(slots, 1, table.row_count),
                                   row_bytes(table, row, Len(table.columns)))
                       ELSE SubSeq(slots, 1, table.row_count)
    /\ UNCHANGED <<exists, page_cache, appended, cursor>>

NextFaults ==
    \/ \E columns \in Layouts : CreateTable(columns)
    \/ Open
    \/ \E row \in Rows : AddRow(row)
    \/ \E row \in Rows, fail \in Faults : AddRowFault(row, fail)

SpecFaults == Init /\ [][NextFaults]_vars

\* ------------------------------------ the mutating calls of Table, alone
\* table.add_page(file)
AddPage ==
    /\ table # NoTable
    /\ file' = add_page(table, file)
    /\ last' = Outcome("add_page", "Ok")
    /\ UNCHANGED <<exists, table, page_cache, appended, slots, cursor>>

\* table.write_row_count_to_disk(file)
WriteRowCountToDisk ==
    /\ table # NoTable
    /\ file' = write_row_count_to_disk(table, file)
    /\ last' = Outcome("write_row_count_to_disk", "Ok")
    /\ UNCHANGED <<exists, table, page_cache, appended, slots, cursor>>

\* table.write_to_disk(file) on the open table
RewriteHeader ==
    /\ table # NoTable
    /\ file' = write_to_disk(table, file)
    /\ last' = Outcome("write_to_disk", "Ok")
    /\ UNCHANGED <<exists, table, page_cache, appended, slots, cursor>>

NextCalls ==
    \/ \E columns \in Layouts : CreateTable(columns)
    \/ Open
    \/ \E row \in Rows : AddRow(row)
    \/ AddPage
    \/ WriteRowCountToDisk
    \/ RewriteHeader

SpecCalls == Init /\ [][NextCalls]_vars

\* --------------------------------------------- tables whose row_size() is 0
\* page_size() divides by row_size(): MAX_PAGE_SIZE % 0 panics
page_size_panics(t) == row_size(t) = 0

\* create_table(name, columns) for any columns: the header is written, then
\* add_page calls page_size()
create_table_any(name, columns, ex, f) ==
    IF ~ex /\ page_size_panics(TableNew(name, columns))
    THEN [exists |-> TRUE,
          file |-> write_to_disk(TableNew(name, columns), f),
          table |-> TableNew(name, columns),
          res |-> Panic]
    ELSE create_table(name, columns, ex, f)

\* add_row(row, file) for any table: a row that passes validation reaches
\* last_page_at_limit(), which calls page_size()
add_row_any(t, row, f) ==
    IF validate_row(t, row) = "" /\ page_size_panics(t)
    THEN [table |-> NoTable, file |-> f, res |-> Panic]
    ELSE add_row(t, row, f, NoFault)

\* no columns, one column of length 0, and the usual layouts
DegenerateLayouts ==
    Layouts \cup { <<>>, <<ColumnDefinitionNew(ColId, "Int", 0)>> }

\* no values, one empty value, and the usual rows
DegenerateRows == Rows \cup { <<>>, << <<>> >> }

CreateTableAny(columns) ==
    /\ table = NoTable
    /\ LET r == create_table_any(TableName, columns, exists, file)
       IN  /\ exists' = r.exists
           /\ file' = r.file
           /\ last' = [Outcome("create_table", r.res) EXCEPT
                         !.table = r.table]
    /\ UNCHANGED <<table, page_cache, appended, slots, cursor>>

AddRowAny(row) ==
    /\ table # NoTable
    /\ table.row_count < MaxRows
    /\ LET r == add_row_any(table, row, file)
       IN  /\ table' = r.table
           /\ file' = r.file
           /\ last' = [Outcome("add_row", r.res) EXCEPT !.row = row]
           /\ page_cache' = IF r.res = Panic THEN EmptyCache ELSE page_cache
           /\ IF r.res = "Ok"
              THEN /\ appended' = Append(appended, row)
                   /\ slots' = Append(SubSeq(slots, 1, table.row_count),
                                      row_bytes(table, row, Len(table.columns)))
              ELSE UNCHANGED <<appended, slots>>
    /\ UNCHANGED <<exists, cursor>>

NextDegenerate ==
    \/ \E columns \in DegenerateLayouts : CreateTableAny(columns)
    \/ Open
    \/ Exit
    \/ \E row \in DegenerateRows : AddRowAny(row)

SpecDegenerate == Init /\ [][NextDegenerate]_vars

\* ------------------------------------------- header round trip (Durable)
LongName == [i \in 1..64 |-> 120]

HeaderNames == { TableName, LongName }

HeaderLayouts ==
    Layouts \cup
    { <<>>,
      <<ColumnDefinitionNew(ColId, "Int", 11),
        ColumnDefinitionNew(LongName, "Varchar", 65536),
        ColumnDefinitionNew(<<>>, "Int", 2147483647)>> }

RowCounts == { 0, 1, 255, 256, 65537, 2147483647 }

\* what the file holds before the header is written: nothing, or old bytes
OldFiles == { <<>>, [i \in 1..400 |-> 1] }

InitHeader ==
    /\ exists = TRUE
    /\ file \in OldFiles
    /\ table \in { [TableNew(name, columns) EXCEPT !.row_count = row_count] :
                     name \in HeaderNames, columns \in HeaderLayouts,
                     row_count \in RowCounts }
    /\ page_cache = EmptyCache
    /\ appended = <<>>
    /\ slots = <<>>
    /\ last = Outcome("init", "")
    /\ cursor = 0

\* table.write_to_disk(file)
WriteToDisk ==
    /\ file' = write_to_disk(table, file)
    /\ last' = Outcome("write_to_disk", "Ok")
    /\ UNCHANGED <<exists, table, page_cache, appended, slots, cursor>>

\* Table::read_from_disk(file) on the file just written
ReadFromDisk ==
    /\ last.op # "init"
    /\ last' = [Outcome("read_from_disk", read_from_disk(file).err) EXCEPT
                  !.table = read_from_disk(file).table]
    /\ UNCHANGED <<exists, file, table, page_cache, appended, slots, cursor>>

NextHeader == WriteToDisk \/ ReadFromDisk

SpecHeader == InitHeader /\ [][NextHeader]_vars

\* ------------------------------------- header writes that fail (Durable)
\* write_to_disk(file) under the fault `fail`: the file it leaves and what
\* it returns; the result of write_row_count_to_disk is discarded
write_to_disk_result(t, f, fail) ==
    LET f_name  == write_all_at(f, t.name, 0)
        f_count == write_all_at(f_name, to_ne_bytes(t.column_count, 4),
                                COLUMN_COUNT_OFFSET)
        f_cols  == write_columns(t.columns, Len(t.columns), f_count)
    IN  IF fail.write = "name"
        THEN [file |-> failed_write(f, t.name, 0, fail.written),
              res |-> IoError]
        ELSE IF fail.write = "column_count"
        THEN [file |-> failed_write(f_name, to_ne_bytes(t.column_count, 4),
                                    COLUMN_COUNT_OFFSET, fail.written),
              res |-> IoError]
        ELSE IF fail.write = "column"
        THEN [file |-> failed_write(
                         write_columns(t.columns, fail.column - 1, f_count),
                         ColumnDefinitionBytes(t.columns[fail.column]),
                         COLUMN_DEFINITION_OFFSET
                           + (fail.column - 1) * ColumnDefinitionSize,
                         fail.written),
              res |-> IoError]
        ELSE IF fail.write = "count"
        THEN [file |-> failed_write(f_cols,
                                    to_ne_bytes(t.row_count, ROW_COUNT_WIDTH),
                                    row_count_offset(t), fail.written),
              res |-> "Ok"]
        ELSE [file |-> write_row_count_to_disk(t, f_cols), res |-> "Ok"]

\* the single field write of write_to_disk that fails, and the bytes of it
\* that reached the file
HeaderFaults(t) ==
    { [write |-> w, written |-> k, column |-> 0] :
        w \in {"name", "column_count", "count"}, k \in {0, 1} }
    \cup
    { [write |-> "column", written |-> k, column |-> n] :
        k \in {0, 1}, n \in 1..Len(t.columns) }

\* table.write_to_disk(file), one of its writes failing
WriteToDiskFault(fail) ==
    /\ LET r == write_to_disk_result(table, file, fail)
       IN  /\ file' = r.file
           /\ last' = [Outcome("write_to_disk", r.res) EXCEPT !.fail = fail]
    /\ UNCHANGED <<exists, table, page_cache, appended, slots, cursor>>

NextHeaderFaults ==
    \/ WriteToDisk
    \/ \E fail \in HeaderFaults(table) : WriteToDiskFault(fail)

SpecHeaderFaults == InitHeader /\ [][NextHeaderFaults]_vars

\* ------------------------------------------------ database header (init_db)
TABLE_COUNT_OFFSET == 64
DATABASE_HEADER_SIZE == 68

\* variant: the table count written after the 68 header bytes
header_write_to_disk_count_after_header(h, f) ==
    write_all_at(write_all_at(f, h.name, 0),
                 to_ne_bytes(h.table_count, 4), DATABASE_HEADER_SIZE)

\* DatabaseFileHeader::write_to_disk whose two write_at calls write every
\* byte: the file afterwards
header_write_to_disk(h, f) ==
    write_all_at(write_all_at(f, h.name, 0),
                 to_ne_bytes(h.table_count, 4), TABLE_COUNT_OFFSET)

\* DatabaseFileHeader::read_from_disk on a handle positioned at `position`:
\* read_exact of 68 bytes from there, unwrap panics on a short file
header_read_from_disk(f, position) ==
    IF position + DATABASE_HEADER_SIZE > Len(f)
    THEN [panic |-> TRUE, header |-> NoTable]
    ELSE [panic |-> FALSE,
          header |->
            [name |-> SubSeq(f, position + 1, position + NAME_SIZE),
             table_count |->
               from_ne_bytes(SubSeq(f, position + NAME_SIZE + 1,
                                    position + DATABASE_HEADER_SIZE))]]

\* variant: the file created and written without asking whether it exists
init_db_truncating(name, ex, f) ==
    [exists |-> TRUE,
     file |-> header_write_to_disk(
                [name |-> NameBuffer(name), table_count |-> 0], <<>>),
     res |-> "Ok"]

\* init_db(config), every write succeeding: whether the file exists
\* afterwards, what it holds and the result
init_db(name, ex, f) ==
    IF ex
    THEN [exists |-> ex, file |-> f, res |-> DbError]
    ELSE [exists |-> TRUE,
          file |-> header_write_to_disk(
                     [name |-> NameBuffer(name), table_count |-> 0], <<>>),
          res |-> "Ok"]

\* database names: "test", "db", one byte, exactly 64 bytes
DatabaseNames ==
    { <<116, 101, 115, 116>>, <<100, 98>>, <<120>>, [i \in 1..64 |-> 121] }

TableCounts == { 0, 1, 255, 256, 65537, 2147483647 }

DatabaseFileHeaders ==
    { [name |-> NameBuffer(name), table_count |-> table_count] :
        name \in DatabaseNames, table_count \in TableCounts }

\* no database file, or a file of old bytes under the database's path
InitDatabase ==
    /\ exists \in BOOLEAN
    /\ file = IF exists THEN [i \in 1..100 |-> 1] ELSE <<>>
    /\ table = NoTable
    /\ page_cache = EmptyCache
    /\ appended = <<>>
    /\ slots = <<>>
    /\ last = Outcome("init", "")
    /\ cursor = 0

\* init_db(&DatabaseConfig { name, .. })
InitDb(name) ==
    /\ LET r == init_db(name, exists, file)
       IN  /\ exists' = r.exists
           /\ file' = r.file
           /\ last' = [Outcome("init_db", r.res) EXCEPT !.name = name]
    /\ UNCHANGED <<table, page_cache, appended, slots, cursor>>

\* header.write_to_disk(file) on the existing database file
WriteHeader(h) ==
    /\ exists
    /\ file' = header_write_to_disk(h, file)
    /\ last' = [Outcome("header_write_to_disk", "Ok") EXCEPT !.table = h]
    /\ UNCHANGED <<exists, table, page_cache, appended, slots, cursor>>

\* File::open(path) and DatabaseFileHeader::read_from_disk(file): the handle
\* is new, its cursor at the start of the file
ReadHeader ==
    /\ exists
    /\ LET r == header_read_from_disk(file, 0)
       IN  last' = [Outcome("header_read_from_disk",
                            IF r.panic THEN Panic ELSE "Ok") EXCEPT
                      !.table = r.header]
    /\ UNCHANGED <<exists, file, table, page_cache, appended, slots, cursor>>

NextDatabase ==
    \/ \E name \in DatabaseNames : InitDb(name)
    \/ \E h \in DatabaseFileHeaders : WriteHeader(h)
    \/ ReadHeader

SpecDatabase == InitDatabase /\ [][NextDatabase]_vars

\* ------------------------------------- one handle on the database file
\* File::open(path): a handle positioned at the start of the file
OpenHandle ==
    /\ exists
    /\ cursor' = 0
    /\ last' = Outcome("open", "Ok")
    /\ UNCHANGED <<exists, file, table, page_cache, appended, slots>>

\* DatabaseFileHeader::read_from_disk(&mut file) on the open handle:
\* read_exact reads at the handle's position and advances it; a short read
\* panics in unwrap and the process ends
ReadHeaderOnHandle ==
    /\ exists
    /\ LET r == header_read_from_disk(file, cursor)
       IN  /\ last' = [Outcome("handle_read_from_disk",
                               IF r.panic THEN Panic ELSE "Ok") EXCEPT
                         !.table = r.header]
           /\ cursor' = IF r.panic THEN 0 ELSE cursor + DATABASE_HEADER_SIZE
    /\ UNCHANGED <<exists, file, table, page_cache, appended, slots>>

NextHandle ==
    \/ \E name \in DatabaseNames : InitDb(name)
    \/ \E h \in DatabaseFileHeaders : WriteHeader(h)
    \/ OpenHandle
    \/ ReadHeaderOnHandle

SpecHandle == InitDatabase /\ [][NextHandle]_vars

\* ------------------------------------------- display decoding (main.rs)
\* raw column bytes as page_rows hands them over: zero and non-zero bytes
\* in every order
RawColumns ==
    UNION { [1..n -> {0, 49, 50}] : n \in 0..MaxColumnBytes }

\* a decoded row of one column, about to be displayed
InitDisplay ==
    /\ exists = FALSE
    /\ file = <<>>
    /\ table = NoTable
    /\ page_cache = EmptyCache
    /\ appended = <<>>
    /\ slots = <<>>
    /\ \E column \in RawColumns :
          last = [Outcome("page_rows", "Ok") EXCEPT !.scan = << <<column>> >>]
    /\ cursor = 0

\* stringify_result(&row, &table.columns) on the row of the scan
Stringify ==
    /\ last.op = "page_rows"
    /\ last' = [Outcome("stringify_result", "Ok") EXCEPT
                  !.scan = last.scan,
                  !.result_rows = <<stringify_result(last.scan[1])>>]
    /\ UNCHANGED <<exists, file, table, page_cache, appended, slots, cursor>>

NextDisplay == Stringify

SpecDisplay == InitDisplay /\ [][NextDisplay]_vars

\* ------------------------------------------------ query parser (query/mod.rs)
\* a String is the sequence of its chars' code points; a query is a Vec<u8>
SELECT == <<83, 69, 76, 69, 67, 84>>
INSERT == <<73, 78, 83, 69, 82, 84>>
FROM == <<70, 82, 79, 77>>
INTO == <<73, 78, 84, 79>>
VALUES_TOKEN == <<86, 65, 76, 85, 69, 83>>

\* str::as_bytes: the UTF-8 encoding of chars below U+0100
RECURSIVE as_bytes(_)
as_bytes(s) ==
    IF s = <<>> THEN <<>>
    ELSE (IF s[1] < 128 THEN <<s[1]>>
          ELSE <<192 + (s[1] \div 64), 128 + (s[1] % 64)>>)
         \o as_bytes(Tail(s))

\* char::is_whitespace for chars below U+0100
is_whitespace(c) == c \in {9, 10, 11, 12, 13, 32, 133, 160}

RECURSIVE trim_start(_)
trim_start(s) ==
    IF s # <<>> /\ is_whitespace(s[1]) THEN trim_start(Tail(s)) ELSE s

RECURSIVE trim_end(_)
trim_end(s) ==
    IF s # <<>> /\ is_whitespace(s[Len(s)])
    THEN trim_end(SubSeq(s, 1, Len(s) - 1)) ELSE s

\* str::trim
trim(s) == trim_end(trim_start(s))

\* str::split(','): the pieces between commas, one piece for no comma
RECURSIVE split(_)
split(s) ==
    IF s = <<>> THEN << <<>> >>
    ELSE LET r == split(Tail(s))
         IN  IF s[1] = 44 THEN << <<>> >> \o r
             ELSE << <<s[1]>> \o r[1] >> \o Tail(r)

\* .split(',').map(|s| s.trim().to_string()).collect()
trimmed_pieces(s) == [i \in 1..Len(split(s)) |-> trim(split(s)[i])]

\* pop_word: the bytes before the first space, each pushed `as char`, and
\* the query left after them and that space
RECURSIVE pop_word(_)
pop_word(query) ==
    IF query = <<>> THEN [word |-> <<>>, rest |-> <<>>]
    ELSE IF query[1] = 32 THEN [word |-> <<>>, rest |-> Tail(query)]
    ELSE LET r == pop_word(Tail(query))
         IN  [word |-> <<query[1]>> \o r.word, rest |-> r.rest]

\* pop_string_inside_parenthesis: the bytes up to the first ')', without
\* any '(', each pushed `as char`, and the query left after that ')'
RECURSIVE pop_string_inside_parenthesis(_)
pop_string_inside_parenthesis(query) ==
    IF query = <<>> THEN [word |-> <<>>, rest |-> <<>>]
    ELSE IF query[1] = 41 THEN [word |-> <<>>, rest |-> Tail(query)]
    ELSE LET r == pop_string_inside_parenthesis(Tail(query))
         IN  [word |-> (IF query[1] # 40 THEN <<query[1]>> ELSE <<>>)
                         \o r.word,
              rest |-> r.rest]

\* QuerySource::from(&mut query)
query_source(query) ==
    LET w == pop_word(query)
        t == pop_word(w.rest)
    IN  IF w.word = FROM
        THEN [value |-> [kind |-> "Table", table |-> t.word], rest |-> t.rest]
        ELSE IF w.word = INTO
        THEN [value |-> [kind |-> "IntoTable", table |-> t.word],
              rest |-> t.rest]
        ELSE [value |-> [kind |-> "Invalid", table |-> <<>>], rest |-> w.rest]

\* ColumnList::from(&mut query); query.remove(0) panics on an empty query
column_list(query) ==
    LET p == pop_string_inside_parenthesis(query)
    IN  IF p.rest = <<>>
        THEN [panic |-> TRUE, value |-> [kind |-> "Invalid", columns |-> <<>>],
              rest |-> <<>>]
        ELSE IF p.rest[1] # 32
        THEN [panic |-> FALSE, value |-> [kind |-> "Invalid", columns |-> <<>>],
              rest |-> Tail(p.rest)]
        ELSE [panic |-> FALSE,
              value |-> [kind |-> "Columns", columns |-> trimmed_pieces(p.word)],
              rest |-> Tail(p.rest)]

\* the while loop of ValueList::from: one row per non-empty parenthesised
\* string, its trimmed pieces as bytes
RECURSIVE value_rows(_)
value_rows(query) ==
    LET p == pop_string_inside_parenthesis(query)
    IN  IF p.word = <<>> THEN <<>>
        ELSE << [i \in 1..Len(trimmed_pieces(p.word)) |->
                    as_bytes(trimmed_pieces(p.word)[i])] >>
             \o value_rows(p.rest)

\* ValueList::from(&mut query)
value_list(query) ==
    LET w == pop_word(query)
    IN  IF w.word # VALUES_TOKEN THEN [kind |-> "Invalid", rows |-> <<>>]
        ELSE [kind |-> "Values", rows |-> value_rows(w.rest)]

NoQuery == [kind |-> "none"]

\* Query::from(&mut Vec<u8>): the Query, or a panic
parse_query(query) ==
    LET w == pop_word(query)
        s == query_source(w.rest)
        c == column_list(s.rest)
    IN  IF w.word = SELECT
        THEN [panic |-> FALSE,
              query |-> [kind |-> "Select", source |-> s.value,
                         scope |-> "All"]]
        ELSE IF w.word = INSERT
        THEN IF c.panic THEN [panic |-> TRUE, query |-> NoQuery]
             ELSE [panic |-> FALSE,
                   query |-> [kind |-> "Insert", source |-> s.value,
                              columns |-> c.value,
                              values |-> value_list(c.rest)]]
        ELSE [panic |-> TRUE, query |-> NoQuery]

\* strings joined with a separator between them
RECURSIVE Join(_, _)
Join(strings, sep) ==
    IF strings = <<>> THEN <<>>
    ELSE IF Len(strings) = 1 THEN strings[1]
    ELSE strings[1] \o sep \o Join(Tail(strings), sep)

\* "INSERT INTO <table> (<c1>,<c2>) VALUES (<tuple>) (<tuple>)" as text
InsertText(parts) ==
    INSERT \o <<32>> \o INTO \o <<32>> \o parts.table \o <<32, 40>>
      \o Join(parts.columns, <<44>>) \o <<41, 32>> \o VALUES_TOKEN \o <<32>>
      \o Join([i \in 1..Len(parts.tuples) |->
                 <<40>> \o Join(parts.tuples[i], <<44>>) \o <<41>>], <<32>>)

\* table names "users", "t"
QueryTables == { <<117, 115, 101, 114, 115>>, <<116>> }

\* column names as written: "id", " account", "v "
QueryColumns == { <<105, 100>>, <<32, 97, 99, 99, 111, 117, 110, 116>>,
                  <<118, 32>> }

\* value tokens as written: "1", " 42", e-acute (U+00E9)
QueryTokens == { <<49>>, <<32, 52, 50>>, <<233>> }

QueryTuples == UNION { [1..n -> QueryTokens] : n \in 1..2 }

InsertParts ==
    { [table |-> t, columns |-> c, tuples |-> v] :
        t \in QueryTables,
        c \in UNION { [1..n -> QueryColumns] : n \in 1..2 },
        v \in UNION { [1..n -> QueryTuples] : n \in 1..MaxTuples } }

\* a statement typed at the prompt: its text is the UTF-8 encoding
InitQuery ==
    /\ exists = FALSE
    /\ file = <<>>
    /\ table = NoTable
    /\ page_cache = EmptyCache
    /\ appended = <<>>
    /\ slots = <<>>
    /\ \E parts \in InsertParts :
          last = [op |-> "input", res |-> "", parts |-> parts,
                  text |-> as_bytes(InsertText(parts)), query |-> NoQuery]
    /\ cursor = 0

\* let query: Query = text.into()
Parse ==
    /\ last.op = "input"
    /\ LET r == parse_query(last.text)
       IN  last' = [op |-> "parse",
                    res |-> IF r.panic THEN Panic ELSE "Ok",
                    parts |-> last.parts, text |-> last.text,
                    query |-> r.query]
    /\ UNCHANGED <<exists, file, table, page_cache, appended, slots, cursor>>

NextQuery == Parse

SpecQuery == InitQuery /\ [][NextQuery]_vars

\* ------------------------------------------------------ SELECT statements
\* "SELECT <keyword> <table>" as text
SelectText(parts) ==
    SELECT \o <<32>> \o parts.keyword \o <<32>> \o parts.table

\* source keywords as written: "FROM", "INTO", "from", "FRM", none
SourceKeywords ==
    { FROM, INTO, <<102, 114, 111, 109>>, <<70, 82, 77>>, <<>> }

\* table names of 'u', 't' and e-acute (U+00E9)
SelectTables ==
    UNION { [1..n -> {117, 116, 233}] : n \in 1..MaxNameChars }

SelectParts ==
    { [keyword |-> k, table |-> t] : k \in SourceKeywords, t \in SelectTables }

\* a SELECT statement typed at the prompt: its text is the UTF-8 encoding
InitSelect ==
    /\ exists = FALSE
    /\ file = <<>>
    /\ table = NoTable
    /\ page_cache = EmptyCache
    /\ appended = <<>>
    /\ slots = <<>>
    /\ \E parts \in SelectParts :
          last = [op |-> "input", res |-> "", parts |-> parts,
                  text |-> as_bytes(SelectText(parts)), query |-> NoQuery]
    /\ cursor = 0

SpecSelect == InitSelect /\ [][NextQuery]_vars

\* ---------------------------------------- the row-count field, written alone
NextCountField == WriteToDisk \/ WriteRowCountToDisk

SpecCountField == InitHeader /\ [][NextCountField]_vars

\* ------------------------------------------------ page geometry (page_size)
MaxLength == 130

\* tables of every row size 1..MaxLength, in one column and in two
GeometryLayouts ==
    { <<ColumnDefinitionNew(ColId, "Int", a)>> : a \in 1..MaxLength }
    \cup { Layout(a, b) : a \in {1, 60, 64, 100}, b \in {1, 28, 64, 100} }

InitGeometry ==
    /\ exists = FALSE
    /\ file = <<>>
    /\ table \in { TableNew(TableName, columns) : columns \in GeometryLayouts }
    /\ page_cache = EmptyCache
    /\ appended = <<>>
    /\ slots = <<>>
    /\ last = Outcome("init", "")
    /\ cursor = 0

\* table.page_size()
PageSize ==
    /\ last' = [Outcome("page_size", "") EXCEPT !.page = page_size(table)]
    /\ UNCHANGED <<exists, file, table, page_cache, appended, slots, cursor>>

NextGeometry == PageSize

SpecGeometry == InitGeometry /\ [][NextGeometry]_vars

\* ------------------------------------- table files with foreign type codes
\* type codes found in a column definition of a table file
TypeCodes == { 0, 1, 2, 3, 257, 16777217 }

\* file offset of the type code of column i (1-based)
TypeCodeOffset(i) ==
    COLUMN_DEFINITION_OFFSET + (i - 1) * ColumnDefinitionSize + NAME_SIZE

InitFormat ==
    /\ exists = TRUE
    /\ file = <<>>
    /\ table \in { [TableNew(TableName, columns) EXCEPT !.row_count = row_count] :
                     columns \in HeaderLayouts, row_count \in {0, 256} }
    /\ page_cache = EmptyCache
    /\ appended = <<>>
    /\ slots = <<>>
    /\ last = Outcome("init", "")
    /\ cursor = 0

\* the table file as another writer left it: the type code of column i
\* replaced by code
ForeignTypeCode(i, code) ==
    /\ last.op # "init"
    /\ i \in 1..Len(table.columns)
    /\ file' = write_all_at(file, to_ne_bytes(code, 4), TypeCodeOffset(i))
    /\ last' = Outcome("foreign_type_code", "")
    /\ UNCHANGED <<exists, table, page_cache, appended, slots, cursor>>

NextFormat ==
    \/ WriteToDisk
    \/ \E i \in 1..3, code \in TypeCodes : ForeignTypeCode(i, code)
    \/ ReadFromDisk

SpecFormat == InitFormat /\ [][NextFormat]_vars

\* ----------------------------------------------------------------- claims
\* the values of a row as they are stored: each zero-padded to its column
Padded(t, row) ==
    [j \in 1..Len(t.columns) |-> resize(row[j], t.columns[j].length)]

Uniform(t) ==
    \A j \in 1..Len(t.columns) : t.columns[j].length = t.columns[1].length

RowsPerPage(t) == page_size(t) \div row_size(t)

DiskRowCount == read_from_disk(file).table.row_count

\* the bytes of row slot i (0-based) as the file holds them
SlotBytes(t, f, i) ==
    SubSeq(f, header_size(t) + row_size(t) * i + 1,
              header_size(t) + row_size(t) * (i + 1))

\* C1: after k successful add_row calls on a table created with row_count 0,
\* the in-memory row_count is k, read_from_disk on the file returns
\* row_count k, and k row slots have been written.
C1_RowCountEqualsAppends ==
    /\ table # NoTable => table.row_count = Len(appended)
    /\ exists => /\ read_from_disk(file).err = ""
                 /\ DiskRowCount = Len(appended)
                 /\ Len(slots) = Len(appended)

C1_Witness ==
    /\ last.op = "add_row" /\ last.res = "Ok"
    /\ Len(appended) >= 2

\* C2: a full scan over pages 0..page_count()-1 yields exactly the k rows
\* appended, in append order (stated for tables whose columns all have the
\* same length, where the per-column slicing of page_rows is not in play).
C2_ScanYieldsAppendedRows ==
    (last.op = "select" /\ table # NoTable /\ Uniform(table)) =>
        /\ last.res = "Ok"
        /\ last.scan = [i \in 1..Len(appended) |-> Padded(table, appended[i])]

\* C3: add_row then page_rows is a round trip per column for any column
\* layout: the first row decoded from page 0 has, as its j-th field, the
\* j-th value given to add_row zero-padded to column j's length.
C3_RoundTripPerColumn ==
    (table # NoTable /\ table.row_count >= 1) =>
        LET r == page_rows(table, page_at(table, 0).page, file)
        IN  /\ ~r.panic
            /\ Len(r.rows) >= 1
            /\ r.rows[1] = Padded(table, appended[1])

\* C4: with P/R rows appended the table has one page (page_count() is 1 and
\* the file holds one page of row storage); appending one more row adds
\* exactly one page, page_count() increasing by exactly 1.
C4_PageBoundary ==
    [][ /\ (table' # NoTable /\ table'.row_count = RowsPerPage(table')) =>
              /\ page_count(table') = 1
              /\ Len(file') = header_size(table') + page_size(table')
        /\ (last'.op = "add_row" /\ last'.res = "Ok"
               /\ table.row_count = RowsPerPage(table)) =>
              /\ page_count(table') = page_count(table) + 1
              /\ Len(file') = Len(file) + page_size(table) ]_vars

\* C5: write_to_disk followed by read_from_disk on the same file returns a
\* table with the same name, column_count, ordered column definitions
\* (name, type, length) and row_count.
C5_HeaderRoundTrip ==
    last.op = "read_from_disk" =>
        /\ last.res = ""
        /\ last.table.name = table.name
        /\ last.table.column_count = table.column_count
        /\ last.table.columns = table.columns
        /\ last.table.row_count = table.row_count

C5_Witness ==
    /\ last.op = "read_from_disk"
    /\ Len(table.columns) = 3
    /\ table.row_count = 65537
    /\ table.name = LongName
    /\ Len(file) > 0 /\ file[Len(file)] = 1

\* C6: page_at succeeds exactly for page_number < page_count() and fails
\* for every page_number >= page_count().
C6_PageAtRange ==
    (last.op = "page_at" /\ table # NoTable) =>
        (last.res = "" <=> last.page < page_count(table))

\* the row has a value longer than the declared length of its column
Oversized(t, row) ==
    \E j \in 1..Len(t.columns) :
        j <= Len(row) /\ Len(row[j]) > t.columns[j].length

\* C7: add_row with a value longer than its column's length returns an
\* error and leaves the in-memory row_count, the on-disk row_count and
\* every file byte as they were.
C7_OversizedRejected ==
    [][ (last'.op = "add_row" /\ table # NoTable
            /\ Oversized(table, last'.row)) =>
          /\ last'.res \in {ErrColumnData, ErrCardinality}
          /\ table' = table
          /\ file' = file
          /\ read_from_disk(file').table.row_count = table.row_count ]_vars

C7_Witness ==
    /\ last.op = "add_row" /\ last.res = ErrColumnData
    /\ table # NoTable /\ table.row_count >= 1
    /\ Len(last.row[1]) <= table.columns[1].length

\* C8: add_row with a row whose number of values differs from column_count
\* returns the cardinality error before any disk mutation: row_count in
\* memory and on disk and all file bytes are unchanged, no page is added.
C8_CardinalityRejected ==
    [][ (last'.op = "add_row" /\ table # NoTable
            /\ Len(last'.row) # table.column_count) =>
          /\ last'.res = ErrCardinality
          /\ table' = table
          /\ file' = file
          /\ read_from_disk(file').table.row_count = table.row_count ]_vars

C8_Witness ==
    /\ last.op = "add_row" /\ last.res = ErrCardinality
    /\ table # NoTable /\ Len(last.row) > table.column_count
    /\ last_page_at_limit(table)

\* 0-based file offsets the successful add_row step may change besides the
\* row slot: the row-count field and, when a page is allocated, that page
InCountField(t, o) ==
    o >= row_count_offset(t) /\ o < row_count_offset(t) + ROW_COUNT_WIDTH

InAddedPage(t, o) ==
    /\ last_page_at_limit(t)
    /\ o >= add_page_offset(t) /\ o < add_page_offset(t) + page_size(t)

\* C9: a successful add_row on a table with row_count n writes row_size()
\* bytes at offset header_size() + row_size()*n, namely each value
\* zero-padded to its column's length in column order, and row_count
\* becomes n+1; no other row slot changes.
C9_RowWrittenAtOffset ==
    [][ (last'.op = "add_row" /\ last'.res = "Ok") =>
          LET n == table.row_count
              start == header_size(table) + row_size(table) * n
              padded == Padded(table, last'.row)
          IN  /\ table'.row_count = n + 1
              /\ \A j \in 1..Len(table.columns) :
                    SubSeq(file',
                           start + SumLengths(table.columns, j - 1) + 1,
                           start + SumLengths(table.columns, j)) = padded[j]
              /\ \A o \in 0..(Len(file') - 1) :
                    (o < start \/ o >= start + row_size(table)) =>
                        \/ InCountField(table, o)
                        \/ (InAddedPage(table, o) /\ file'[o + 1] = 0)
                        \/ (o < Len(file) /\ file'[o + 1] = file[o + 1])
                        \/ (o >= Len(file) /\ file'[o + 1] = 0) ]_vars

C9_Witness ==
    /\ last.op = "add_row" /\ last.res = "Ok"
    /\ table # NoTable /\ table.row_count = 3
    /\ ~Uniform(table)

\* C10: the on-disk row_count never exceeds the number of completely
\* written row slots, the counted slots hold the rows written, and after a
\* crash between the row write and the row-count write the uncounted row
\* is not returned by a scan of the reopened table.
C10_CrashWindow ==
    /\ exists =>
          /\ DiskRowCount <= Len(slots)
          /\ \A i \in 1..DiskRowCount :
                SlotBytes(read_from_disk(file).table, file, i - 1) = slots[i]
    /\ (last.op = "select" /\ last.res = "Ok" /\ table # NoTable
           /\ Len(slots) > table.row_count) =>
          Len(last.scan) <= table.row_count

\* C16: write_to_disk returns an I/O error whenever one of its field writes
\* fails (name, column_count, a column definition or the row-count field),
\* the fields written before the failing one being on disk; it returns Ok
\* only if every field write succeeded.
C16_FieldFailureSurfaces ==
    last.op = "write_to_disk" =>
      /\ (last.res = "Ok") <=> (last.fail.write = "none")
      /\ (last.res # "Ok") <=> (last.res = IoError)
      /\ last.fail.write \in {"column_count", "column", "count"} =>
           SubSeq(file, 1, NAME_SIZE) = table.name
      /\ last.fail.write \in {"column", "count"} =>
           SubSeq(file, COLUMN_COUNT_OFFSET + 1, COLUMN_COUNT_OFFSET + 4)
             = to_ne_bytes(table.column_count, 4)

\* C17: create_table on a name whose file exists returns an error and leaves
\* the file (header, row_count, row data) unchanged; on a name with no file
\* it creates a file from which read_from_disk returns the given columns
\* with row_count 0.
C17_CreateTableChecksExistence ==
    [][ last'.op = "create_table" =>
          IF exists
          THEN /\ last'.res # "Ok"
               /\ file' = file
               /\ exists'
          ELSE /\ last'.res = "Ok"
               /\ exists'
               /\ read_from_disk(file').err = ""
               /\ read_from_disk(file').table.columns = last'.table.columns
               /\ read_from_disk(file').table.column_count
                    = Len(last'.table.columns)
               /\ read_from_disk(file').table.name = last'.table.name
               /\ read_from_disk(file').table.row_count = 0 ]_vars

\* create_table refused on a file that holds rows
C17_Witness ==
    /\ last.op = "create_table"
    /\ last.res = "already exists"
    /\ read_from_disk(file).err = ""
    /\ read_from_disk(file).table.row_count >= 1
    /\ Len(file) > header_size(read_from_disk(file).table)

\* a file created by create_table
C17_WitnessCreated ==
    /\ last.op = "create_table"
    /\ last.res = "Ok"
    /\ last.table.columns \in Layouts

\* C18: across add_row, add_page, write_row_count_to_disk and write_to_disk
\* the name, column_count and columns of the table do not change and
\* column_count equals the number of columns, so header_size(), row_size()
\* and page_size() keep their values.
C18_HeaderGeometryFixed ==
    [][ /\ table' # NoTable => table'.column_count = Len(table'.columns)
        /\ (table # NoTable /\ table' # NoTable) =>
             /\ table'.name = table.name
             /\ table'.column_count = table.column_count
             /\ table'.columns = table.columns
             /\ header_size(table') = header_size(table)
             /\ row_size(table') = row_size(table)
             /\ page_size(table') = page_size(table) ]_vars

\* a table that took rows and then each of the other calls
C18_Witness ==
    /\ table # NoTable
    /\ table.row_count >= 2
    /\ last.op \in {"add_page", "write_row_count_to_disk", "write_to_disk"}
    /\ Len(file) > header_size(table) + 2 * page_size(table)

TypeOK ==
    /\ exists \in BOOLEAN
    /\ \A i \in 1..Len(file) : file[i] \in 0..255

\* C11: when add_row allocates a page, the zero-filled region is the page
\* right after the pages already holding rows, the appended row is written
\* into that page, and the row storage grows by exactly one page_size().
C11_AllocatedPageReceivesRow ==
    [][ (last'.op = "add_row" /\ last'.res = "Ok"
            /\ last_page_at_limit(table)) =>
          /\ add_page_offset(table) =
                header_size(table)
                  + ((row_size(table) * table.row_count) \div page_size(table))
                      * page_size(table)
          /\ row_offset(table) >= add_page_offset(table)
          /\ row_offset(table) + row_size(table)
                <= add_page_offset(table) + page_size(table)
          /\ (table.row_count > 0 =>
                Len(file') = Len(file) + page_size(table)) ]_vars

\* C12: page_size() is a positive whole multiple of row_size(): row_size()
\* itself when row_size() >= 128, otherwise the largest multiple of
\* row_size() that does not exceed 128.
C12_PageSizeWholeRows ==
    last.op = "page_size" =>
        /\ last.page > 0
        /\ last.page % row_size(table) = 0
        /\ (row_size(table) >= 128 => last.page = row_size(table))
        /\ (row_size(table) < 128 =>
              /\ last.page <= 128
              /\ last.page + row_size(table) > 128)

C12_Witness ==
    /\ last.op = "page_size"
    /\ row_size(table) = 50
    /\ last.page = 100

\* C13: the row appended as the i-th (0-based), written at
\* header_size() + row_size()*i, lies wholly inside the page
\* i div (page_size()/row_size()) as page_at maps it, at in-page offset
\* (i mod (page_size()/row_size())) * row_size(), where the page's bytes
\* are the row's bytes.
C13_LinearAndPagedLayoutAgree ==
    [][ (last'.op = "add_row" /\ last'.res = "Ok") =>
          LET i == table.row_count
              in_page == (i % RowsPerPage(table)) * row_size(table)
              pg == page_at(table', i \div RowsPerPage(table))
          IN  /\ pg.err = ""
              /\ row_offset(table) = pg.page.offset + in_page
              /\ in_page + row_size(table) <= pg.page.len
              /\ SubSeq(PageData(file', pg.page),
                        in_page + 1, in_page + row_size(table))
                   = row_bytes(table, last'.row, Len(table.columns)) ]_vars

C13_Witness ==
    /\ last.op = "add_row" /\ last.res = "Ok"
    /\ table # NoTable /\ table.row_count = 3
    /\ RowsPerPage(table) = 2

\* the type code the file holds for column i (1-based)
FileTypeCode(f, i) ==
    from_ne_bytes(SubSeq(f, TypeCodeOffset(i) + 1, TypeCodeOffset(i) + 4))

\* C14: read_from_disk on a table file in which some column definition has
\* a type code other than 1 or 2 returns DbError and no Table; codes 1 and
\* 2 decode to Int and Varchar, the inverse of the encoding written.
C14_UnknownTypeCodeRejected ==
    last.op = "read_from_disk" =>
        IF \E i \in 1..Len(table.columns) : FileTypeCode(file, i) \notin {1, 2}
        THEN last.res = DbError /\ last.table = NoTable
        ELSE /\ last.res = ""
             /\ \A i \in 1..Len(table.columns) :
                   /\ last.table.columns[i].column_type =
                         (IF FileTypeCode(file, i) = 1 THEN "Int" ELSE "Varchar")
                   /\ ColumnTypeCode(last.table.columns[i].column_type) =
                         FileTypeCode(file, i)

C14_Witness ==
    /\ last.op = "read_from_disk" /\ last.res = DbError
    /\ Len(table.columns) = 3
    /\ FileTypeCode(file, 1) = 2
    /\ FileTypeCode(file, 3) = 257

\* file g is file f grown by zeros only, except that bytes at the 0-based
\* offsets a..a+n-1 may have become zero
OnlyZeroedWithin(f, g, a, n) ==
    LET grown == f \o Zeros(Len(g) - Len(f))
        lo == IF a < Len(g) THEN a ELSE Len(g)
        hi == IF a + n < Len(g) THEN a + n ELSE Len(g)
    IN  /\ Len(g) >= Len(f)
        /\ SubSeq(g, 1, lo) = SubSeq(grown, 1, lo)
        /\ SubSeq(g, hi + 1, Len(g)) = SubSeq(grown, hi + 1, Len(g))
        /\ \A i \in (lo + 1)..hi : g[i] = 0 \/ g[i] = grown[i]

\* C15: if add_page fails during add_row, add_row returns an error, no row
\* bytes are written (the only bytes that change are bytes of the page
\* being allocated that become zero) and row_count is unchanged in memory
\* and on disk.
C15_PageFailureAborts ==
    [][ (last'.op = "add_row" /\ last'.fail.write = "page") =>
          /\ last'.res = ErrAddPage
          /\ table' = table
          /\ read_from_disk(file').table.row_count
                = read_from_disk(file).table.row_count
          /\ OnlyZeroedWithin(file, file', add_page_offset(table),
                              page_size(table)) ]_vars

C15_Witness ==
    /\ last.op = "add_row" /\ last.res = ErrAddPage
    /\ last.fail.written = 1
    /\ table # NoTable /\ table.row_count >= 1
    /\ Len(file) > header_size(table) + 2 * page_size(table)


\* C19: init_db on a database that does not exist creates a file from which
\* DatabaseFileHeader::read_from_disk returns the name zero-padded to 64
\* bytes and table_count 0; write_to_disk of a header followed by
\* read_from_disk returns the header's name and table_count.
C19_DatabaseHeaderRoundTrip ==
    [][ last'.op = "header_read_from_disk" =>
          /\ (last.op = "init_db" /\ last.res = "Ok") =>
               /\ last'.res = "Ok"
               /\ Len(last'.table.name) = NAME_SIZE
               /\ SubSeq(last'.table.name, 1, Len(last.name)) = last.name
               /\ \A i \in (Len(last.name) + 1)..NAME_SIZE :
                     last'.table.name[i] = 0
               /\ last'.table.table_count = 0
          /\ last.op = "header_write_to_disk" =>
               /\ last'.res = "Ok"
               /\ last'.table.name = last.table.name
               /\ last'.table.table_count = last.table.table_count ]_vars

\* a header with a count wider than one byte read back from a file that
\* held another header before
C19_Witness ==
    /\ last.op = "header_read_from_disk"
    /\ last.res = "Ok"
    /\ last.table.table_count = 65537
    /\ last.table.name = NameBuffer(<<100, 98>>)
    /\ Len(file) = DATABASE_HEADER_SIZE

\* C20: whenever add_row returns an error (validation, page allocation, row
\* write or row-count write), the in-memory row_count is what it was before
\* the call and equals the row_count on disk.
C20_ErrorLeavesRowCount ==
    [][ (last'.op = "add_row" /\ last'.res # "Ok") =>
          /\ table'.row_count = table.row_count
          /\ read_from_disk(file').err = ""
          /\ read_from_disk(file').table.row_count = table'.row_count ]_vars

\* C21: after create_table and any number of successful add_row calls,
\* every page index below page_count() is fully backed by the file:
\* header_size() + (p + 1) * page_size() <= file length.
C21_CountedPagesBacked ==
    (table # NoTable /\ last.op = "add_row" /\ last.res = "Ok") =>
        \A p \in 0..(page_count(table) - 1) :
            header_size(table) + (p + 1) * page_size(table) <= Len(file)

\* C22: no add_row or add_page call, in any state (add_page with the last
\* page not full and add_page at row_count 0 included), changes a byte of a
\* row slot i < row_count counted before the call; the zero-filled page
\* starts past the counted rows.
C22_CountedSlotsKept ==
    [][ (table # NoTable /\ last'.op \in {"add_row", "add_page"}) =>
          /\ \A i \in 0..(table.row_count - 1) :
                SlotBytes(table, file', i) = SlotBytes(table, file, i)
          /\ add_page_offset(table)
                >= header_size(table) + row_size(table) * table.row_count
       ]_vars

\* add_page called alone on a table whose last page holds a row and is not
\* full
C22_Witness ==
    /\ table # NoTable
    /\ last.op = "add_page"
    /\ table.row_count >= 1
    /\ ~last_page_at_limit(table)
    /\ \E o \in 1..row_size(table) : SlotBytes(table, file, 0)[o] # 0

\* C23: after any sequence of successful add_row calls the Table that
\* read_from_disk reconstructs equals the in-memory Table (name, columns,
\* row_count, hence page_count() and last_page_at_limit()), and appending
\* through the reconstructed table gives the same file and the same scan
\* results as appending through the original instance with its page cache.
C23_RestartConsistent ==
    table # NoTable =>
      LET r == read_from_disk(file)
      IN  /\ r.err = ""
          /\ r.table.name = table.name
          /\ r.table.column_count = table.column_count
          /\ r.table.columns = table.columns
          /\ r.table.row_count = table.row_count
          /\ page_count(r.table) = page_count(table)
          /\ last_page_at_limit(r.table) = last_page_at_limit(table)
          /\ scan_pages(r.table, file, EmptyCache, 0)
               = scan_pages(table, file, page_cache, 0)
          /\ \A row \in Rows :
               LET kept == add_row(table, row, file, NoFault)
                   reopened == add_row(r.table, row, file, NoFault)
               IN  /\ reopened.res = kept.res
                   /\ reopened.file = kept.file
                   /\ reopened.table = kept.table
                   /\ scan_pages(reopened.table, reopened.file, EmptyCache, 0)
                        = scan_pages(kept.table, kept.file, page_cache, 0)

\* an open table with rows on two pages and scanned pages in its cache
C23_Witness ==
    /\ table # NoTable
    /\ table.row_count >= 2
    /\ page_cache # EmptyCache
    /\ last.op = "add_row" /\ last.res = "Ok"
    /\ Len(file) > header_size(table) + page_size(table)

\* the page that holds row slot i (0-based)
PageOfSlot(t, i) == (row_size(t) * i) \div page_size(t)

\* the bytes of row slot i read through the page the scan uses for it
SlotThroughCache(t, f, cache, i) ==
    PageSlice(f, cached_page(t, cache, PageOfSlot(t, i)),
              row_size(t) * i - PageOfSlot(t, i) * page_size(t),
              row_size(t) * (i + 1) - PageOfSlot(t, i) * page_size(t))

\* a row was appended into a page that the cache already held
AppendedIntoCachedPage ==
    /\ table # NoTable
    /\ last.op = "add_row" /\ last.res = "Ok"
    /\ PageOfSlot(table, table.row_count - 1) \in DOMAIN page_cache

C25_NoPanic ==
    last.op \in {"create_table", "add_row"} => last.res # Panic

\* C26: write_row_count_to_disk changes only the row-count field: it writes
\* the counter's full width (8 bytes) at offset 68 + 76 * column_count,
\* header_size() is that offset plus that width, and no byte of the name,
\* column count, column definitions or row storage is modified.
C26_OnlyCountFieldWritten ==
    [][ last'.op = "write_row_count_to_disk" =>
          LET off == 68 + 76 * table.column_count
              grown == IF Len(file) < off + 8
                       THEN file \o Zeros(off + 8 - Len(file)) ELSE file
          IN  /\ header_size(table) = off + 8
              /\ Len(file') = Len(grown)
              /\ SubSeq(file', 1, off) = SubSeq(grown, 1, off)
              /\ SubSeq(file', off + 1, off + 8)
                   = to_ne_bytes(table.row_count, 8)
              /\ SubSeq(file', off + 9, Len(file'))
                   = SubSeq(grown, off + 9, Len(grown)) ]_vars

\* the count of a three-column table written into a file of old bytes: the
\* field changed, the bytes around it did not
C26_Witness ==
    /\ last.op = "write_row_count_to_disk"
    /\ table.column_count = 3
    /\ table.row_count = 65537
    /\ Len(file) = 400
    /\ file[68 + 76 * 3] = 1
    /\ file[68 + 76 * 3 + 1] = 1
    /\ file[68 + 76 * 3 + 4] = 0
    /\ file[68 + 76 * 3 + 9] = 1

\* C27: DatabaseFileHeader::read_from_disk returns the name at file offset
\* 0 and the table_count at offset 64 whatever the position of the handle,
\* so every call on the same open handle returns the same header.
C27_ReadIgnoresCursor ==
    last.op = "handle_read_from_disk" =>
        /\ last.res = "Ok"
        /\ last.table.name = SubSeq(file, 1, NAME_SIZE)
        /\ last.table.table_count
             = from_ne_bytes(SubSeq(file, TABLE_COUNT_OFFSET + 1,
                                    DATABASE_HEADER_SIZE))

\* bytes without their trailing zero bytes
RECURSIVE WithoutTrailingZeros(_)
WithoutTrailingZeros(bytes) ==
    IF bytes = <<>> THEN <<>>
    ELSE IF bytes[Len(bytes)] = 0
    THEN WithoutTrailingZeros(SubSeq(bytes, 1, Len(bytes) - 1))
    ELSE bytes

\* C28: display decoding strips only the trailing zero bytes of a column's
\* raw bytes: zero bytes before the last non-zero byte are kept, and a
\* stored value without zero bytes is displayed as inserted.
C28_OnlyTrailingZerosStripped ==
    last.op = "stringify_result" =>
        last.result_rows[1][1] = WithoutTrailingZeros(last.scan[1][1])

\* C29: init_db on a database whose file exists returns DbError and leaves
\* the file's bytes unchanged; the header (name, table_count 0) is written
\* only when the file did not exist.
C29_InitDbChecksExistence ==
    [][ last'.op = "init_db" =>
          IF exists
          THEN /\ last'.res = DbError
               /\ file' = file
               /\ exists'
          ELSE /\ last'.res = "Ok"
               /\ exists'
               /\ file' = NameBuffer(last'.name) \o to_ne_bytes(0, 4) ]_vars

\* init_db refused on a database whose header holds a table count
C29_Witness ==
    /\ last.op = "init_db"
    /\ last.res = DbError
    /\ Len(file) = DATABASE_HEADER_SIZE
    /\ header_read_from_disk(file, 0).header.table_count = 65537
    /\ header_read_from_disk(file, 0).header.name # NameBuffer(last.name)

\* C30: parsing "INSERT INTO <table> (<c1>, <c2>, ...) VALUES (<tuple>)
\* (<tuple>) ..." yields Query::Insert with IntoTable(<table>), Columns
\* holding the trimmed column names in order, and Values holding one entry
\* per tuple in source order, each the tuple's comma-separated tokens,
\* trimmed, as the bytes of the input text.
C30_InsertParsed ==
    last.op = "parse" =>
        /\ last.res = "Ok"
        /\ last.query.kind = "Insert"
        /\ last.query.source = [kind |-> "IntoTable", table |-> last.parts.table]
        /\ last.query.columns =
             [kind |-> "Columns",
              columns |-> [i \in 1..Len(last.parts.columns) |->
                              trim(last.parts.columns[i])]]
        /\ last.query.values.kind = "Values"
        /\ Len(last.query.values.rows) = Len(last.parts.tuples)
        /\ \A i \in 1..Len(last.parts.tuples) :
              last.query.values.rows[i] =
                 [j \in 1..Len(last.parts.tuples[i]) |->
                     as_bytes(trim(last.parts.tuples[i][j]))]

\* C31: parsing "SELECT FROM <table>" yields Query::Select(
\* QuerySource::Table(<table>), Scope::All): pop_word returns the characters
\* before the first space and consumes them with that space; a source
\* keyword other than FROM or INTO yields QuerySource::Invalid.
C31_SelectParsed ==
    last.op = "parse" =>
        /\ pop_word(last.text).word = SELECT
        /\ pop_word(last.text).rest
             = SubSeq(last.text, Len(SELECT) + 2, Len(last.text))
        /\ last.res = "Ok"
        /\ last.query.kind = "Select"
        /\ last.query.scope = "All"
        /\ last.parts.keyword = FROM =>
             last.query.source = [kind |-> "Table", table |-> last.parts.table]
        /\ last.parts.keyword \notin {FROM, INTO} =>
             last.query.source.kind = "Invalid"
====
